---- MODULE Spec2Model ----
(***************************************************************************)
(* The attendance pallet (pallets/attendance/src/lib.rs): its four storage *)
(* items, the reward callout and the event log are the state; each         *)
(* dispatchable is one action.  Cryptography is symbolic: a signature names *)
(* the key that made it and the digest it covers, a proof names the        *)
(* verifying key and the public input it was made for.                     *)
(*                                                                         *)
(* Beside the pallet, each with a specification of its own: the prefix     *)
(* circuit of geohash-prover (SpecProver), the signature scheme of         *)
(* ark-fields (SpecSchnorr), the hexadecimal conversions of the oracle's   *)
(* env.rs (SpecHex) and the oracle's run command (SpecRun).  A program's   *)
(* variable is Idle in the specifications of the others.                   *)
(***************************************************************************)
EXTENDS Integers, Sequences, FiniteSets, Bags, TLC

\* ----------------------------------------------------------------- bounds
\* Both submission calls are switched off once this many rewards were
\* issued in a run.
MaxMints == 2

\* ------------------------------------------------------ program constants
\* type RawPublicKey = BoundedVec<u8, ConstU32<32>>
PublicKeyLen == 32
\* type RawSignature = BoundedVec<u8, ConstU32<64>>
SignatureLen == 64
\* pub const MaxGeohashLength: u32 = 12 (the mock runtime's value)
MaxGeohashLength == 12

\* The bytes of "0123456789bcdefghjkmnpqrstuvwxyz".
GeohashAlphabet ==
    (48..57) \cup (98..104) \cup {106, 107, 109, 110} \cup (112..122)

\* ------------------------------------------------------------------ inputs
\* Account ids (ALICE = 1 in the tests) and the origins a call can carry.
Accounts == {1, 2}
Signed(who) == [kind |-> "Signed", who |-> who]
Root == [kind |-> "Root", who |-> 0]
Origins == {Signed(a) : a \in Accounts} \cup {Root}

\* Challenge<T> values: "", "b" and "a" ('a' is outside the alphabet).
Geohashes == {s \in {<<>>, <<98>>, <<97>>} : Len(s) <= MaxGeohashLength}

\* Oracle key pairs, named by a number.
OracleKeys == {1, 2}

\* T::PayloadHasher::hash: a digest stands for the bytes it was made from.
PayloadHasher_hash(x) == [digest |-> x]

\* Raw public keys: the encodings of the oracle keys and one that is a byte
\* short.
RawPublicKeys ==
    {[len |-> PublicKeyLen, key |-> k] : k \in OracleKeys}
        \cup {[len |-> PublicKeyLen - 1, key |-> 0]}

\* What an oracle holding key k signs for a location, as raw bytes.
Sign(k, location) ==
    [len |-> SignatureLen, signer |-> k, msg |-> PayloadHasher_hash(location)]

\* The attestations that exist: both oracles signed location "b", oracle 1
\* also signed "a", a location outside the alphabet.  No participant holds a
\* signature the oracles did not make.
Attested == {<<1, <<98>>>>, <<2, <<98>>>>, <<1, <<97>>>>}

\* Raw signatures: the attestations, and one that is a byte short.
RawSignatures ==
    {Sign(a[1], a[2]) : a \in Attested}
        \cup {[len |-> SignatureLen - 1, signer |-> 0,
               msg |-> PayloadHasher_hash(<<>>)]}

\* Circuit shapes (len(shorter)) for which a trusted setup was run.
Shapes == {1}

\* challenge.iter().map(|c| (*c as u64).into()): a byte is below the field's
\* modulus, so its field element is its numeric value.
Fr_from_u64(c) == c
public_input_of(challenge) ==
    [i \in 1..Len(challenge) |-> Fr_from_u64(challenge[i])]

\* Raw verifying keys: one per shape, and one that does not deserialize.
RawVerifyingKeys ==
    {[wf |-> TRUE, shape |-> n] : n \in Shapes}
        \cup {[wf |-> FALSE, shape |-> 0]}

\* Raw proofs: for every shape and every public input of that shape, the
\* proof a prover holding a matching witness makes; and bytes that do not
\* deserialize.
RawProofs ==
    {[wf |-> TRUE, shape |-> n, input |-> public_input_of(c)] :
        n \in Shapes, c \in {g \in Geohashes : Len(g) \in Shapes}}
        \cup {[wf |-> FALSE, shape |-> 0, input |-> <<>>]}

Pairs == Geohashes \X Accounts

\* ------------------------------------------------------------------- state
VARIABLES
    Challenges,         \* StorageMap: the keys present (value true)
    Oracle,             \* StorageValue<RawPublicKey>: {} is None, {k} Some(k)
    Submissions,        \* StorageDoubleMap: the (challenge, who) keys present
    ProofVerifyingKey,  \* StorageValue<RawVerifyingKey>: {} or {vk}
    events,             \* the deposited events, a bag
    mintCalls,          \* the Mint::mint calls made, a bag of the
                        \* (challenge, who) each was made for
    last,               \* the last call: its dispatchable and its outcome
    prover,             \* geohash-prover: the circuit given, the constraint
                        \* system, the call made and what it returned
    schnorr,            \* ark-fields: key pair, message, signature, verdict
    hex,                \* oracle env.rs: the array or string given and the
                        \* conversion's result
    run                 \* oracle main.rs: one run of the command

storage == <<Challenges, Oracle, Submissions, ProofVerifyingKey>>
\* The pallet's state, and the state of the programs beside it.
pallet == <<Challenges, Oracle, Submissions, ProofVerifyingKey, events,
            mintCalls, last>>
libs == <<prover, schnorr, hex, run>>
vars == <<pallet, libs>>

TotalMints == BagCardinality(mintCalls)
MintsFor(pair) == CopiesIn(pair, mintCalls)
\* T::Mint::mint(&who), made while handling a submission for challenge
mint(challenge, who) == mintCalls (+) SetToBag({<<challenge, who>>})
\* The submission calls are open while fewer than MaxMints rewards were issued.
SubmissionsOpen == TotalMints < MaxMints

ChallengeCreated(who, challenge) ==
    [type |-> "ChallengeCreated", who |-> who, challenge |-> challenge]
SubmissionAccepted(who, challenge, signature) ==
    [type |-> "SubmissionAccepted", who |-> who, challenge |-> challenge,
     signature |-> signature]
deposit_event(e) == events (+) SetToBag({e})

\* The pallet's storage at genesis.
Genesis ==
    /\ Challenges = {}
    /\ Oracle = {}
    /\ Submissions = {}
    /\ ProofVerifyingKey = {}
    /\ events = EmptyBag
    /\ mintCalls = EmptyBag
    /\ last = [op |-> "none", result |-> "none"]

\* The value of a program's variable in the runs in which it takes no part.
Idle == [op |-> "idle"]

Init ==
    /\ Genesis
    /\ prover = Idle
    /\ schnorr = Idle
    /\ hex = Idle
    /\ run = Idle

\* ----------------------------------------------------------------- helpers
ensure_signed(origin) == origin.kind = "Signed"
ensure_root(origin) == origin.kind = "Root"

\* Variant: the alphabet taken to be all digits and lowercase letters.
valid_geohash_any_lowercase(geohash) ==
    \A i \in 1..Len(geohash) : geohash[i] \in (48..57) \cup (97..122)

\* Variant: an empty geohash is not valid.
valid_geohash_nonempty(geohash) ==
    /\ Len(geohash) > 0
    /\ \A i \in 1..Len(geohash) : geohash[i] \in GeohashAlphabet

valid_geohash(geohash) ==
    \A i \in 1..Len(geohash) : geohash[i] \in GeohashAlphabet

\* Variant: the prefix test with its operands swapped.
geohash_in_geohash_swapped(geohash, challenge) ==
    /\ Len(geohash) <= Len(challenge)
    /\ \A i \in 1..Len(geohash) : challenge[i] = geohash[i]

\* geohash.starts_with(challenge)
geohash_in_geohash(geohash, challenge) ==
    /\ Len(challenge) <= Len(geohash)
    /\ \A i \in 1..Len(challenge) : geohash[i] = challenge[i]

\* T::PublicKeyOfOracle::from_slice and T::Signature::from_slice accept the
\* exact length only.
PublicKey_from_slice_ok(raw) == raw.len = PublicKeyLen
Signature_from_slice_ok(raw) == raw.len = SignatureLen

\* T::Verify::verify(&signature, message, &public_key)
Verify_verify(signature, message, public_key) ==
    /\ signature.signer = public_key.key
    /\ signature.msg = message

\* ---------------------------------------------------------- create_challenge
create_challenge_result(origin, challenge) ==
    IF ~ensure_signed(origin) THEN "BadOrigin"
    ELSE IF ~valid_geohash(challenge) THEN "InvalidGeohash"
    ELSE IF challenge \in Challenges THEN "InvalidGeohash"
    ELSE "Ok"

\* Variant: the event is deposited before the duplicate check.
create_challenge_event_first(origin, challenge) ==
    LET result == create_challenge_result(origin, challenge) IN
    /\ last' = [op |-> "create_challenge", result |-> result]
    /\ Challenges' =
           IF result = "Ok" THEN Challenges \cup {challenge} ELSE Challenges
    /\ events' =
           IF ensure_signed(origin) /\ valid_geohash(challenge)
           THEN deposit_event(ChallengeCreated(origin.who, challenge))
           ELSE events
    /\ UNCHANGED <<libs, Oracle, Submissions, ProofVerifyingKey, mintCalls>>

create_challenge(origin, challenge) ==
    LET result == create_challenge_result(origin, challenge) IN
    /\ last' = [op |-> "create_challenge", result |-> result]
    /\ IF result = "Ok"
       THEN /\ Challenges' = Challenges \cup {challenge}
            /\ events' = deposit_event(ChallengeCreated(origin.who, challenge))
       ELSE UNCHANGED <<Challenges, events>>
    /\ UNCHANGED <<libs, Oracle, Submissions, ProofVerifyingKey, mintCalls>>

\* ------------------------------------------------- submission_with_signature
\* The checks that follow the replay and prefix checks.
key_and_signature_result(location, signature) ==
    IF Oracle = {} THEN "Panic"             \* .expect("oracle key")
    ELSE LET public_key == CHOOSE k \in Oracle : TRUE
             message == PayloadHasher_hash(location)
         IN  IF ~PublicKey_from_slice_ok(public_key) THEN "InvalidPublicKey"
             ELSE IF ~Signature_from_slice_ok(signature)
                  THEN "InvalidSignature"
             ELSE IF ~Verify_verify(signature, message, public_key)
                  THEN "InvalidSignature"
             ELSE "Ok"

\* Variant: no look-up of the Submissions record.
submission_with_signature_result_no_replay_check(origin, challenge, location, signature) ==
    IF ~ensure_signed(origin) THEN "BadOrigin"
    ELSE IF ~geohash_in_geohash(location, challenge) THEN "InvalidGeohash"
    ELSE key_and_signature_result(location, signature)

\* Variant: the prefix check made before the look-up of the record.
submission_with_signature_result_prefix_first(origin, challenge, location, signature) ==
    IF ~ensure_signed(origin) THEN "BadOrigin"
    ELSE IF ~geohash_in_geohash(location, challenge) THEN "InvalidGeohash"
    ELSE IF <<challenge, origin.who>> \in Submissions THEN "AlreadySubmitted"
    ELSE key_and_signature_result(location, signature)

submission_with_signature_result(origin, challenge, location, signature) ==
    IF ~ensure_signed(origin) THEN "BadOrigin"
    ELSE IF <<challenge, origin.who>> \in Submissions THEN "AlreadySubmitted"
    ELSE IF ~geohash_in_geohash(location, challenge) THEN "InvalidGeohash"
    ELSE key_and_signature_result(location, signature)

\* Variant: the reward is issued once the prefix check passed, before the
\* key and the signature are checked.
submission_with_signature_mint_first(origin, challenge, location, signature) ==
    LET result == submission_with_signature_result(
                      origin, challenge, location, signature)
        pair == <<challenge, origin.who>>
    IN  /\ last' = [op |-> "submission_with_signature", result |-> result]
        /\ mintCalls' =
               IF result \in {"Ok", "InvalidPublicKey", "InvalidSignature"}
               THEN mint(challenge, origin.who) ELSE mintCalls
        /\ IF result = "Ok"
           THEN /\ Submissions' = Submissions \cup {pair}
                /\ events' = deposit_event(
                       SubmissionAccepted(origin.who, challenge, signature))
           ELSE UNCHANGED <<Submissions, events>>
        /\ UNCHANGED <<libs, Challenges, Oracle, ProofVerifyingKey>>

\* Variant: the reward is issued and the event deposited, and no record is
\* written.
submission_with_signature_no_record(origin, challenge, location, signature) ==
    LET result == submission_with_signature_result(
                      origin, challenge, location, signature)
    IN  /\ last' = [op |-> "submission_with_signature", result |-> result]
        /\ IF result = "Ok"
           THEN /\ mintCalls' = mint(challenge, origin.who)
                /\ events' = deposit_event(
                       SubmissionAccepted(origin.who, challenge, signature))
           ELSE UNCHANGED <<mintCalls, events>>
        /\ UNCHANGED <<libs, Challenges, Oracle, Submissions, ProofVerifyingKey>>

\* Variant: the accepted pair's record replaces the records held so far.
submission_with_signature_overwrite(origin, challenge, location, signature) ==
    LET result == submission_with_signature_result(
                      origin, challenge, location, signature)
        pair == <<challenge, origin.who>>
    IN  /\ last' = [op |-> "submission_with_signature", result |-> result]
        /\ IF result = "Ok"
           THEN /\ mintCalls' = mint(challenge, origin.who)
                /\ Submissions' = {pair}
                /\ events' = deposit_event(
                       SubmissionAccepted(origin.who, challenge, signature))
           ELSE UNCHANGED <<mintCalls, Submissions, events>>
        /\ UNCHANGED <<libs, Challenges, Oracle, ProofVerifyingKey>>

submission_with_signature(origin, challenge, location, signature) ==
    LET result == submission_with_signature_result(
                      origin, challenge, location, signature)
        pair == <<challenge, origin.who>>
    IN  /\ last' = [op |-> "submission_with_signature", result |-> result]
        /\ IF result = "Ok"
           THEN /\ mintCalls' = mint(challenge, origin.who)
                /\ Submissions' = Submissions \cup {pair}
                /\ events' = deposit_event(
                       SubmissionAccepted(origin.who, challenge, signature))
           ELSE UNCHANGED <<mintCalls, Submissions, events>>
        /\ UNCHANGED <<libs, Challenges, Oracle, ProofVerifyingKey>>

\* ----------------------------------------------------- set_oracle_public_key
\* Variant: every signed caller may set the key, as well as root.
set_oracle_public_key_result_any_caller(origin) == "Ok"

set_oracle_public_key_result(origin) ==
    IF ~ensure_root(origin) THEN "BadOrigin" ELSE "Ok"

\* Variant: the key is stored when none is registered, and kept otherwise.
set_oracle_public_key_first_only(origin, public_key) ==
    LET result == set_oracle_public_key_result(origin) IN
    /\ last' = [op |-> "set_oracle_public_key", result |-> result]
    /\ Oracle' = IF result = "Ok" /\ Oracle = {} THEN {public_key} ELSE Oracle
    /\ UNCHANGED <<libs, Challenges, Submissions, ProofVerifyingKey, events,
                   mintCalls>>

set_oracle_public_key(origin, public_key) ==
    LET result == set_oracle_public_key_result(origin) IN
    /\ last' = [op |-> "set_oracle_public_key", result |-> result]
    /\ Oracle' = IF result = "Ok" THEN {public_key} ELSE Oracle
    /\ UNCHANGED <<libs, Challenges, Submissions, ProofVerifyingKey, events,
                   mintCalls>>

\* ----------------------------------------------------- submission_with_proof
\* Groth16::<Bn254>::verify: an error when the number of public inputs is not
\* the verifying key's, else whether the proof was made for this key and
\* these inputs.
Groth16_verify(verifying_key, public_input, proof) ==
    IF Len(public_input) # verifying_key.shape THEN "Err"
    ELSE IF proof.shape = verifying_key.shape /\ proof.input = public_input
         THEN "true"
    ELSE "false"

\* "true", "false", or "panic" where an expect() fails.
verify_zkp(proof, challenge) ==
    IF ~proof.wf THEN "panic"                       \* .expect("proof")
    ELSE IF ProofVerifyingKey = {} THEN "panic"     \* .expect("verifying key")
    ELSE LET verifying_key == CHOOSE k \in ProofVerifyingKey : TRUE IN
         IF ~verifying_key.wf THEN "panic"          \* .expect("verifying key")
         ELSE LET verified == Groth16_verify(
                      verifying_key, public_input_of(challenge), proof)
              IN  IF verified = "Err" THEN "panic"  \* .expect("verified")
                  ELSE verified

submission_with_proof_result(origin, challenge, proof) ==
    IF ~ensure_signed(origin) THEN "BadOrigin"
    ELSE LET v == verify_zkp(proof, challenge) IN
         IF v = "panic" THEN "Panic"
         ELSE IF v = "false" THEN "InvalidProof"
         ELSE "Ok"

submission_with_proof(origin, challenge, proof) ==
    LET result == submission_with_proof_result(origin, challenge, proof)
        pair == <<challenge, origin.who>>
    IN  /\ last' = [op |-> "submission_with_proof", result |-> result]
        /\ IF result = "Ok"
           THEN /\ mintCalls' = mint(challenge, origin.who)
                /\ Submissions' = Submissions \cup {pair}
           ELSE UNCHANGED <<mintCalls, Submissions>>
        /\ UNCHANGED <<libs, Challenges, Oracle, ProofVerifyingKey, events>>

\* ------------------------------------------------------------ specification
Next ==
    \/ \E origin \in Origins, challenge \in Geohashes :
           create_challenge(origin, challenge)
    \/ /\ SubmissionsOpen
       /\ \E origin \in Origins, challenge \in Geohashes,
             location \in Geohashes, signature \in RawSignatures :
              submission_with_signature(origin, challenge, location, signature)
    \/ \E origin \in Origins, public_key \in RawPublicKeys :
           set_oracle_public_key(origin, public_key)
    \/ /\ SubmissionsOpen
       /\ \E origin \in Origins, challenge \in Geohashes,
             proof \in RawProofs :
              submission_with_proof(origin, challenge, proof)

Spec == Init /\ [][Next]_vars

\* The verifying-key setter of the specification's section 4.4: privileged,
\* overwrites the single registered value.  The pallet declares the storage
\* item and reads it, and has no call that writes it.
set_verifying_key(origin, verifying_key) ==
    LET result == IF ~ensure_root(origin) THEN "BadOrigin" ELSE "Ok" IN
    /\ last' = [op |-> "set_verifying_key", result |-> result]
    /\ ProofVerifyingKey' =
           IF result = "Ok" THEN {verifying_key} ELSE ProofVerifyingKey
    /\ UNCHANGED <<libs, Challenges, Oracle, Submissions, events, mintCalls>>

NextVK ==
    \/ Next
    \/ \E origin \in Origins, verifying_key \in RawVerifyingKeys :
           set_verifying_key(origin, verifying_key)

\* The pallet together with the verifying-key setter.
SpecVK == Init /\ [][NextVK]_vars

\* ============================================================ geohash-prover
\* src/geohash-prover/src/lib.rs: the prefix circuit and the calls that
\* synthesize it.  A run is one call on one circuit.

\* The longest shorter and larger sequences given to the circuit.
MaxLen == 3

\* Field elements: Fr::from(97) and Fr::from(98), the bytes of "a" and "b".
FrSample == {97, 98}
FrSeqs == UNION {[1..n -> FrSample] : n \in 0..MaxLen}
\* CompareCircuit { shorter: Option<Vec<F>>, larger: Option<Vec<F>> }; None
\* is {} and Some(v) is {v}.
Circuits ==
    [shorter : {{}} \cup {{v} : v \in FrSeqs},
     larger : {{}} \cup {{v} : v \in FrSeqs}]
CompareCircuit_new(shorter, larger) ==
    [shorter |-> {shorter}, larger |-> {larger}]

\* A constraint system: the values assigned to the public inputs and to the
\* witnesses allocated so far, and the constraints, each the equality of
\* two variables.
ConstraintSystem_new ==
    [instance |-> <<>>, witness |-> <<>>, constraints |-> <<>>]
Min(a, b) == IF a <= b THEN a ELSE b
ValueOf(cs, var) ==
    IF var.kind = "input" THEN cs.instance[var.index]
    ELSE cs.witness[var.index]
is_satisfied(cs) ==
    \A i \in 1..Len(cs.constraints) :
        ValueOf(cs, cs.constraints[i].left)
            = ValueOf(cs, cs.constraints[i].right)

\* What generate_constraints does once its instance check passed: a public
\* input for every element of shorter, a witness for each of the first
\* `taken` elements of larger, and an equality for every pair the zip of the
\* two lists of variables yields.
allocate_and_enforce(cs, shorter, larger, taken) ==
    LET shorter_vars ==
            [i \in 1..Len(shorter) |->
                [kind |-> "input", index |-> Len(cs.instance) + i]]
        larger_vars ==
            [i \in 1..Min(taken, Len(larger)) |->
                [kind |-> "witness", index |-> Len(cs.witness) + i]]
    IN  [instance |-> cs.instance \o shorter,
         witness |-> cs.witness \o SubSeq(larger, 1, Len(larger_vars)),
         constraints |-> cs.constraints \o
             [i \in 1..Min(Len(shorter_vars), Len(larger_vars)) |->
                 [left |-> larger_vars[i], right |-> shorter_vars[i]]]]

\* Variant: the instance check lacks the comparison of the two lengths.
generate_constraints_no_length_check(self, cs) ==
    IF self.shorter = {} \/ self.larger = {}
    THEN [result |-> "AssignmentMissing", cs |-> cs]
    ELSE LET shorter == CHOOSE v \in self.shorter : TRUE
             larger == CHOOSE v \in self.larger : TRUE
         IN  IF Len(shorter) = 0 \/ Len(larger) = 0
             THEN [result |-> "Unsatisfiable", cs |-> cs]
             ELSE [result |-> "Ok",
                   cs |-> allocate_and_enforce(
                              cs, shorter, larger, Len(shorter))]

\* Variant: a witness is allocated for every element of larger.
generate_constraints_no_take(self, cs) ==
    IF self.shorter = {} \/ self.larger = {}
    THEN [result |-> "AssignmentMissing", cs |-> cs]
    ELSE LET shorter == CHOOSE v \in self.shorter : TRUE
             larger == CHOOSE v \in self.larger : TRUE
         IN  IF Len(shorter) = 0 \/ Len(larger) = 0
                  \/ Len(shorter) > Len(larger)
             THEN [result |-> "Unsatisfiable", cs |-> cs]
             ELSE [result |-> "Ok",
                   cs |-> allocate_and_enforce(
                              cs, shorter, larger, Len(larger))]

\* CompareCircuit::generate_constraints(self, cs): the result and the
\* constraint system it leaves.
generate_constraints(self, cs) ==
    IF self.shorter = {} \/ self.larger = {}
    THEN [result |-> "AssignmentMissing", cs |-> cs]
    ELSE LET shorter == CHOOSE v \in self.shorter : TRUE
             larger == CHOOSE v \in self.larger : TRUE
         IN  IF Len(shorter) = 0 \/ Len(larger) = 0
                  \/ Len(shorter) > Len(larger)
             THEN [result |-> "Unsatisfiable", cs |-> cs]
             ELSE [result |-> "Ok",
                   cs |-> allocate_and_enforce(
                              cs, shorter, larger, Len(shorter))]

\* A call's output when it returned an error.
NoOutput == [kind |-> "none"]
\* Proving and verifying keys are told apart by the number of public inputs
\* of the circuit they were set up for, as the pallet's verifying keys are.
Groth16Keys(shape) == [kind |-> "keys", shape |-> shape]
ProvingKeys == {Groth16Keys(n) : n \in 1..MaxLen}
\* A proof made with the keys of `shape` for the public inputs `inputs`.
Groth16Proof(shape, inputs) ==
    [kind |-> "proof", shape |-> shape, input |-> inputs]

\* setup_groth16(rng, circuit): Groth16::circuit_specific_setup synthesizes
\* the circuit into a new constraint system and returns its error, or the
\* keys for the system's shape.
setup_groth16(circuit) ==
    LET synthesis == generate_constraints(circuit, ConstraintSystem_new) IN
    [result |-> synthesis.result, cs |-> synthesis.cs,
     output |-> IF synthesis.result = "Ok"
                THEN Groth16Keys(Len(synthesis.cs.instance))
                ELSE NoOutput]

\* create_proof(pk, circuit, rng): Groth16::prove synthesizes the circuit
\* into a new constraint system and returns its error.  Otherwise, for a
\* satisfied system of the proving key's shape it returns a proof for the
\* system's public inputs; for any other system it aborts on the library's
\* debug assertion in a debug build, and returns a proof that is for no
\* public inputs in a release build.
create_proof(pk, circuit) ==
    LET synthesis == generate_constraints(circuit, ConstraintSystem_new) IN
    IF synthesis.result # "Ok"
    THEN {[result |-> synthesis.result, cs |-> synthesis.cs,
           output |-> NoOutput]}
    ELSE IF is_satisfied(synthesis.cs)
            /\ Len(synthesis.cs.instance) = pk.shape
    THEN {[result |-> "Ok", cs |-> synthesis.cs,
           output |-> Groth16Proof(pk.shape, synthesis.cs.instance)]}
    ELSE {[result |-> "Panic", cs |-> synthesis.cs, output |-> NoOutput],
          [result |-> "Ok", cs |-> synthesis.cs,
           output |-> Groth16Proof(pk.shape, NoOutput)]}

InitProver ==
    /\ Genesis
    /\ \E circuit \in Circuits :
           prover = [circuit |-> circuit, cs |-> ConstraintSystem_new,
                     op |-> "none", result |-> "none", output |-> NoOutput]
    /\ schnorr = Idle
    /\ hex = Idle
    /\ run = Idle

\* circuit.generate_constraints(cs) on the new constraint system.
Synthesize ==
    /\ prover.op = "none"
    /\ LET synthesis == generate_constraints(prover.circuit, prover.cs) IN
       prover' = [prover EXCEPT !.op = "generate_constraints",
                                !.result = synthesis.result,
                                !.cs = synthesis.cs]
    /\ UNCHANGED <<pallet, schnorr, hex, run>>

Setup ==
    /\ prover.op = "none"
    /\ LET done == setup_groth16(prover.circuit) IN
       prover' = [prover EXCEPT !.op = "setup_groth16",
                                !.result = done.result,
                                !.cs = done.cs,
                                !.output = done.output]
    /\ UNCHANGED <<pallet, schnorr, hex, run>>

Prove(pk) ==
    /\ prover.op = "none"
    /\ \E done \in create_proof(pk, prover.circuit) :
           prover' = [prover EXCEPT !.op = "create_proof",
                                    !.result = done.result,
                                    !.cs = done.cs,
                                    !.output = done.output]
    /\ UNCHANGED <<pallet, schnorr, hex, run>>

NextProver ==
    \/ Synthesize
    \/ Setup
    \/ \E pk \in ProvingKeys : Prove(pk)

SpecProver == InitProver /\ [][NextProver]_vars

\* ------------------------------------------- geohash-prover: public inputs
\* The strings turned into field elements, by the prover for the circuit
\* and for verify_proof, and by the pallet for verify_zkp.  A run is one
\* string encoded at each of the three places.

\* The longest string encoded.
MaxInputLen == 3

\* The bytes of the strings: NUL and "a", "b", "c".
InputBytes == {0, 97, 98, 99}
InputStrings == UNION {[1..n -> InputBytes] : n \in 0..MaxInputLen}

\* Variant: the field elements in the order of the bytes from the last to
\* the first.
PrimeString_from_reversed(value) ==
    [i \in 1..Len(value) |-> Fr_from_u64(value[Len(value) + 1 - i])]

\* PrimeString::<F>::from(value: &str):
\* value.as_bytes().iter().map(|c| (*c as u64).into()).collect()
PrimeString_from(value) ==
    [i \in 1..Len(value) |-> Fr_from_u64(value[i])]
\* Vec::<F>::from(PrimeString): value.0.clone()
Vec_from_PrimeString(value) == value
\* CompareCircuit::new_from_str(shorter, larger)
CompareCircuit_new_from_str(shorter, larger) ==
    [shorter |-> {Vec_from_PrimeString(PrimeString_from(shorter))},
     larger |-> {Vec_from_PrimeString(PrimeString_from(larger))}]
\* The public inputs verify_proof(vk, public_inputs, proof) hands to
\* Groth16::verify.
verify_proof_public_inputs(public_inputs) ==
    Vec_from_PrimeString(PrimeString_from(public_inputs))

InitPublicInput ==
    /\ Genesis
    /\ \E string \in InputStrings :
           prover = [string |-> string, for_circuit |-> {},
                     for_verify_proof |-> {}, for_verify_zkp |-> {}]
    /\ schnorr = Idle
    /\ hex = Idle
    /\ run = Idle

\* CompareCircuit::new_from_str with the string as shorter: the circuit's
\* public inputs.
EncodeForCircuit ==
    /\ prover.for_circuit = {}
    /\ prover' = [prover EXCEPT !.for_circuit =
           CompareCircuit_new_from_str(prover.string, prover.string).shorter]
    /\ UNCHANGED <<pallet, schnorr, hex, run>>

\* verify_proof with the string as public_inputs
EncodeForVerifyProof ==
    /\ prover.for_verify_proof = {}
    /\ prover' = [prover EXCEPT !.for_verify_proof =
           {verify_proof_public_inputs(prover.string)}]
    /\ UNCHANGED <<pallet, schnorr, hex, run>>

\* The pallet's verify_zkp with the string as challenge
EncodeForVerifyZkp ==
    /\ prover.for_verify_zkp = {}
    /\ prover' = [prover EXCEPT !.for_verify_zkp =
           {public_input_of(prover.string)}]
    /\ UNCHANGED <<pallet, schnorr, hex, run>>

NextPublicInput ==
    \/ EncodeForCircuit
    \/ EncodeForVerifyProof
    \/ EncodeForVerifyZkp

SpecPublicInput == InitPublicInput /\ [][NextPublicInput]_vars

\* ================================================================ ark-fields
\* src/ark-fields/src/lib.rs: the signature scheme over a group of prime
\* order.  The group is the integers modulo GroupOrder under addition, a
\* point times a scalar is their product, and the scalar field is the
\* integers modulo GroupOrder.

\* The order of the group and of its scalar field.
GroupOrder == 7
\* G1Projective::generator()
generator == 3

Scalars == 0..(GroupOrder - 1)
Points == 0..(GroupOrder - 1)
PointAdd(P, Q) == (P + Q) % GroupOrder          \* P + Q
PointMul(P, s) == (P * s) % GroupOrder          \* P * s
FrAdd(a, b) == (a + b) % GroupOrder
FrMul(a, b) == (a * b) % GroupOrder

\* Messages: byte vectors.
Messages == {<<>>, <<104>>, <<104, 105>>}

\* serialize_uncompressed of a point: its bytes.
serialize_uncompressed(P) == <<P>>

\* Sha256, as a 16-bit digest that depends on every byte and on the bytes'
\* order: two bytes, the high one first.
RECURSIVE Sha256_update(_, _)
Sha256_update(h, bytes) ==
    IF bytes = <<>> THEN h
    ELSE Sha256_update((h * 31 + Head(bytes) + 1) % 65536, Tail(bytes))
Sha256_finalize(h) == <<h \div 256, h % 256>>

\* Fr::from_be_bytes_mod_order
RECURSIVE from_be_bytes(_, _)
from_be_bytes(acc, bytes) ==
    IF bytes = <<>> THEN acc
    ELSE from_be_bytes(acc * 256 + Head(bytes), Tail(bytes))
from_be_bytes_mod_order(bytes) == from_be_bytes(0, bytes) % GroupOrder

\* hash(message, public_key, R): the digest of the public key's bytes, then
\* the message, then R's bytes.
hash(message, public_key, R) ==
    Sha256_finalize(
        Sha256_update(
            Sha256_update(
                Sha256_update(5381, serialize_uncompressed(public_key)),
                message),
            serialize_uncompressed(R)))

\* generate_key_pair, for the private key drawn
Keypair(private_key) ==
    [private_key |-> private_key,
     public_key |-> PointMul(generator, private_key)]

\* sign(keypair, message), for the nonce r drawn
sign(keypair, message, r) ==
    LET R == PointMul(generator, r)
        c == from_be_bytes_mod_order(hash(message, keypair.public_key, R))
    IN  [R |-> R, z |-> FrAdd(r, FrMul(c, keypair.private_key))]

\* Variant: the challenge recomputed from R's bytes before the public key's.
verify_hash_reordered(public_key, signature, message) ==
    LET c == from_be_bytes_mod_order(hash(message, signature.R, public_key))
    IN  PointAdd(signature.R, PointMul(public_key, c))
            = PointMul(generator, signature.z)

verify(public_key, signature, message) ==
    LET c == from_be_bytes_mod_order(hash(message, public_key, signature.R))
    IN  PointAdd(signature.R, PointMul(public_key, c))
            = PointMul(generator, signature.z)

NotVerified == [op |-> "none"]

InitSchnorr ==
    /\ Genesis
    /\ prover = Idle
    /\ \E private_key \in Scalars, message \in Messages :
           schnorr = [keypair |-> Keypair(private_key), message |-> message,
                      signature |-> {}, verified |-> NotVerified]
    /\ hex = Idle
    /\ run = Idle

\* sign(&keypair, message)
SignMessage ==
    /\ schnorr.signature = {}
    /\ \E r \in Scalars :
           schnorr' = [schnorr EXCEPT
               !.signature = {sign(schnorr.keypair, schnorr.message, r)}]
    /\ UNCHANGED <<pallet, prover, hex, run>>

\* verify(public_key, &signature, message), for the signature made and any
\* public key and message
VerifySignature(public_key, message) ==
    /\ schnorr.signature # {}
    /\ schnorr.verified = NotVerified
    /\ LET signature == CHOOSE sig \in schnorr.signature : TRUE IN
       schnorr' = [schnorr EXCEPT !.verified =
           [op |-> "verify", public_key |-> public_key, message |-> message,
            ok |-> verify(public_key, signature, message)]]
    /\ UNCHANGED <<pallet, prover, hex, run>>

NextSchnorr ==
    \/ SignMessage
    \/ \E public_key \in Points, message \in Messages :
           VerifySignature(public_key, message)

SpecSchnorr == InitSchnorr /\ [][NextSchnorr]_vars

\* ============================================================ oracle: env.rs
\* src/oracle/src/env.rs: byte arrays to hexadecimal strings and back.  A
\* string is the sequence of its bytes.

\* The longest string given to try_hex_to_array that no array was encoded to.
MaxHexLen == 5

\* The arrays encoded: every array of one byte, and arrays of no byte and of
\* two bytes.
ByteArrays ==
    {<<>>} \cup {<<b>> : b \in 0..255}
           \cup {<<a, b>> : a, b \in {0, 10, 171, 255}}
\* The characters "0", "x", "F" and "g" of the other strings decoded.
HexStringChars == {48, 120, 70, 103}
HexStrings == UNION {[1..n -> HexStringChars] : n \in 0..MaxHexLen}
\* The const parameter N of try_hex_to_array.
ArraySizes == {0, 1, 2}

\* "0123456789abcdef"
HexDigits ==
    <<48, 49, 50, 51, 52, 53, 54, 55, 56, 57, 97, 98, 99, 100, 101, 102>>
\* hex::encode: two lowercase digits for every byte, the high one first.
hex_encode(bytes) ==
    [i \in 1..(2 * Len(bytes)) |->
        IF i % 2 = 1
        THEN HexDigits[(bytes[(i + 1) \div 2] \div 16) + 1]
        ELSE HexDigits[(bytes[i \div 2] % 16) + 1]]
\* The value of a hexadecimal digit of either case; -1 for any other byte.
hex_val(c) ==
    IF c \in 65..70 THEN c - 65 + 10
    ELSE IF c \in 97..102 THEN c - 97 + 10
    ELSE IF c \in 48..57 THEN c - 48
    ELSE -1
\* hex::decode_to_slice(data, out) for an out of n bytes
hex_decode_to_slice(data, n) ==
    IF Len(data) % 2 # 0 THEN [tag |-> "OddLength"]
    ELSE IF Len(data) \div 2 # n THEN [tag |-> "InvalidStringLength"]
    ELSE LET bad == {i \in 1..Len(data) : hex_val(data[i]) = -1} IN
         IF bad # {}
         THEN LET first == CHOOSE i \in bad : \A j \in bad : i <= j IN
              [tag |-> "InvalidHexCharacter", c |-> data[first],
               index |-> first - 1]
         ELSE [tag |-> "Ok",
               out |-> [i \in 1..n |->
                           hex_val(data[2 * i - 1]) * 16
                               + hex_val(data[2 * i])]]

\* hex_string.strip_prefix("0x").unwrap_or(&hex_string)
strip_prefix_0x(hex_string) ==
    IF Len(hex_string) >= 2 /\ hex_string[1] = 48 /\ hex_string[2] = 120
    THEN SubSeq(hex_string, 3, Len(hex_string))
    ELSE hex_string

\* Variant: the string decoded as given, a leading 0x kept.
try_hex_to_array_no_strip(N, hex_string) ==
    IF Len(hex_string) # N * 2 THEN [tag |-> "InvalidHexLength"]
    ELSE LET decoded == hex_decode_to_slice(hex_string, N) IN
         IF decoded.tag # "Ok"
         THEN [tag |-> "HexParseError", error |-> decoded]
         ELSE [tag |-> "Ok", out |-> decoded.out]

\* try_hex_to_array::<N>(hex_string)
try_hex_to_array(N, hex_string) ==
    LET stripped == strip_prefix_0x(hex_string) IN
    IF Len(stripped) # N * 2 THEN [tag |-> "InvalidHexLength"]
    ELSE LET decoded == hex_decode_to_slice(stripped, N) IN
         IF decoded.tag # "Ok"
         THEN [tag |-> "HexParseError", error |-> decoded]
         ELSE [tag |-> "Ok", out |-> decoded.out]

\* array_to_hex(array)
array_to_hex(array) == hex_encode(array)

NotDecoded == [tag |-> "none"]

\* Either an array to encode, or a string to decode.
InitHex ==
    /\ Genesis
    /\ prover = Idle
    /\ schnorr = Idle
    /\ \/ \E array \in ByteArrays :
              hex = [array |-> {array}, string |-> {}, prefixed |-> FALSE,
                     N |-> 0, result |-> NotDecoded]
       \/ \E hex_string \in HexStrings :
              hex = [array |-> {}, string |-> {hex_string},
                     prefixed |-> FALSE, N |-> 0, result |-> NotDecoded]
    /\ run = Idle

\* array_to_hex(array)
Encode ==
    /\ hex.array # {}
    /\ hex.string = {}
    /\ hex' = [hex EXCEPT
           !.string = {array_to_hex(CHOOSE array \in hex.array : TRUE)}]
    /\ UNCHANGED <<pallet, prover, schnorr, run>>

\* "0x{}" of the encoded array, as the generate command prints a key
Prefix0x ==
    /\ hex.array # {}
    /\ hex.string # {}
    /\ ~hex.prefixed
    /\ hex.result = NotDecoded
    /\ hex' = [hex EXCEPT
           !.string = {<<48, 120>> \o (CHOOSE str \in hex.string : TRUE)},
           !.prefixed = TRUE]
    /\ UNCHANGED <<pallet, prover, schnorr, run>>

\* try_hex_to_array::<N>(hex_string)
Decode(N) ==
    /\ hex.string # {}
    /\ hex.result = NotDecoded
    /\ hex' = [hex EXCEPT
           !.N = N,
           !.result = try_hex_to_array(
                          N, CHOOSE str \in hex.string : TRUE)]
    /\ UNCHANGED <<pallet, prover, schnorr, run>>

NextHex ==
    \/ Encode
    \/ Prefix0x
    \/ \E N \in ArraySizes : Decode(N)

SpecHex == InitHex /\ [][NextHex]_vars

\* =========================================================== oracle: main.rs
\* src/oracle/src/main.rs, lib.rs: one run of the `run` command.  The
\* environment, the arguments and the answer of the location service are
\* the inputs; what was printed and the exit code are the result.

\* pub struct Key([u8; 32])
KeyLen == 32

\* Two private keys: the one of env.rs's test, and one of equal bytes.
TestKey == [i \in 1..KeyLen |-> IF i = KeyLen THEN 42 ELSE 0]
OtherKey == [i \in 1..KeyLen |-> 17]
\* ORACLE_KEY: unset, a key's hex, or a string of the wrong length.
EnvValues == {{}, {array_to_hex(TestKey)}, {<<48, 120, 49, 50>>}}
\* The key argument: its default "", a key's hex with and without "0x", and
\* "zz".
KeyArguments ==
    {<<>>, array_to_hex(OtherKey), <<48, 120>> \o array_to_hex(OtherKey),
     <<122, 122>>}
\* The accuracy argument, a u8: in and out of the range 1..12.
Accuracies == {0, 1, 2, 13}
\* Geohash strings of a length, over the characters "b" and "c".
GeohashesOfLen(n) == [1..n -> {98, 99}]

\* try_key_from_environment()
try_key_from_environment(env) ==
    IF env = {} THEN [tag |-> "VarNotFound"]
    ELSE try_hex_to_array(KeyLen, CHOOSE v \in env : TRUE)

\* env::try_key_from_environment().or_else(|_| env::try_hex_to_array(key))
key_result(env, key) ==
    LET from_env == try_key_from_environment(env) IN
    IF from_env.tag = "Ok" THEN from_env
    ELSE try_hex_to_array(KeyLen, key)

\* Geohash::current_location(accuracy): what the location service and the
\* encoder may answer.  LocationError::Location when the request or its
\* parsing fails; LocationError::Output when geohash::encode rejects the
\* coordinates or a length outside 1..12; else a geohash of `accuracy`
\* characters.
current_location(accuracy) ==
    {[tag |-> "Location"], [tag |-> "Output"]}
        \cup IF accuracy \in 1..12
             THEN {[tag |-> "Ok", value |-> g] : g \in GeohashesOfLen(accuracy)}
             ELSE {}

\* Blake2_256::hash(message)
Blake2_256_hash(message) == [blake2_256 |-> message]
\* Ed25519::sign(message, key): the signature's bytes, which name the key
\* and the hash they were made for.  Every 32 bytes are a signing key.
Ed25519_sign(message, key) ==
    [tag |-> "Ok", value |-> [ed25519 |-> key, message |-> message]]
\* sign_location::<L, S, H>(key, location): S::sign(H::hash(location), key)
sign_location(key, location) ==
    Ed25519_sign(Blake2_256_hash(location), key)
\* serde_json::to_string of a Vec<u8>: an array of the bytes' numbers
serde_json_to_string(bytes) ==
    [tag |-> "Ok", value |-> [json |-> "array", numbers |-> bytes]]

NotRun == [tag |-> "none"]

InitRun ==
    /\ Genesis
    /\ prover = Idle
    /\ schnorr = Idle
    /\ hex = Idle
    /\ \E env \in EnvValues, key \in KeyArguments, accuracy \in Accuracies :
           run = [env |-> env, key |-> key, accuracy |-> accuracy,
                  stages |-> <<>>, location |-> NotRun,
                  signed_location |-> NotRun, stdout |-> <<>>,
                  stderr |-> <<>>, exit_code |-> {}]

\* The run ends at a failed stage: the error on stderr, exit code 1.  The
\* exit code is {} while the run goes on.
Failed(r, what, e) ==
    [r EXCEPT !.stderr = Append(@, [failed |-> what, error |-> e]),
              !.exit_code = {1}]

\* Variant: the location service is asked before the key is read.
main_run_location_first(located) ==
    LET key == key_result(run.env, run.key)
        r1 == [run EXCEPT !.stages = Append(@, "location"),
                          !.location = located]
        r2 == [r1 EXCEPT !.stages = Append(@, "key")]
        signed == sign_location(key.out, located.value)
        r3 == [r2 EXCEPT !.stages = Append(@, "sign"),
                         !.signed_location = signed]
        json == serde_json_to_string(signed.value)
        r4 == [r3 EXCEPT !.stages = Append(@, "serialize")]
    IN  /\ run.exit_code = {}
        /\ run' =
               IF located.tag # "Ok"
               THEN Failed(r1, "get location", located)
               ELSE IF key.tag # "Ok" THEN Failed(r2, "get key", key)
               ELSE IF signed.tag # "Ok"
                    THEN Failed(r3, "sign location", signed)
               ELSE IF json.tag # "Ok"
                    THEN Failed(r4, "serialize signature", json)
               ELSE [r4 EXCEPT !.stdout = Append(@, json.value),
                               !.exit_code = {0}]
        /\ UNCHANGED <<pallet, prover, schnorr, hex>>

\* Commands::Run { key, accuracy }, with the location service answering
\* `located` if it is asked
main_run(located) ==
    LET key == key_result(run.env, run.key)
        r1 == [run EXCEPT !.stages = Append(@, "key")]
        r2 == [r1 EXCEPT !.stages = Append(@, "location"),
                         !.location = located]
        signed == sign_location(key.out, located.value)
        r3 == [r2 EXCEPT !.stages = Append(@, "sign"),
                         !.signed_location = signed]
        json == serde_json_to_string(signed.value)
        r4 == [r3 EXCEPT !.stages = Append(@, "serialize")]
    IN  /\ run.exit_code = {}
        /\ run' =
               IF key.tag # "Ok" THEN Failed(r1, "get key", key)
               ELSE IF located.tag # "Ok"
                    THEN Failed(r2, "get location", located)
               ELSE IF signed.tag # "Ok"
                    THEN Failed(r3, "sign location", signed)
               ELSE IF json.tag # "Ok"
                    THEN Failed(r4, "serialize signature", json)
               ELSE [r4 EXCEPT !.stdout = Append(@, json.value),
                               !.exit_code = {0}]
        /\ UNCHANGED <<pallet, prover, schnorr, hex>>

NextRun == \E located \in current_location(run.accuracy) : main_run(located)

SpecRun == InitRun /\ [][NextRun]_vars

\* ------------------------------------------------------------------ claims
\* What the claims speak of, stated apart from the handlers' code.
IsPrefix(p, s) == \E n \in 0..Len(s) : SubSeq(s, 1, n) = p
BytesOf(s) == {s[i] : i \in 1..Len(s)}
\* signature is the registered oracle key's signature over hash(location)
OracleSigned(signature, location) ==
    \E k \in OracleKeys :
        /\ Oracle = {[len |-> PublicKeyLen, key |-> k]}
        /\ signature = Sign(k, location)
\* a SubmissionAccepted event (only submission_with_signature deposits one)
\* names the pair
AcceptedBySignature(pair) ==
    \E e \in BagToSet(events) :
        /\ e.type = "SubmissionAccepted"
        /\ <<e.challenge, e.who>> = pair
EventsOfType(t) == {e \in BagToSet(events) : e.type = t}
SignatureErrors ==
    {"AlreadySubmitted", "InvalidGeohash", "InvalidPublicKey",
     "InvalidSignature"}

\* C1: once submission_with_signature succeeded for a (challenge,
\* participant) pair, every further submission_with_signature by that
\* participant for that challenge returns AlreadySubmitted, whatever location
\* and signature it carries, and Mint::mint was invoked exactly once for the
\* pair.
C1_ReplayRejectedMintOnce ==
    \A pair \in Pairs :
        AcceptedBySignature(pair) =>
            /\ MintsFor(pair) = 1
            /\ \A location \in Geohashes, signature \in RawSignatures :
                   submission_with_signature_result(
                       Signed(pair[2]), pair[1], location, signature)
                       = "AlreadySubmitted"

\* C1 witness: a repeated submission_with_signature was made and rejected.
C1_Witness ==
    /\ last = [op |-> "submission_with_signature",
               result |-> "AlreadySubmitted"]
    /\ \E pair \in Pairs : AcceptedBySignature(pair) /\ MintsFor(pair) = 1

C3_SignatureAcceptedIff ==
    Oracle # {} =>
        \A a \in Accounts, challenge \in Geohashes, location \in Geohashes,
           signature \in RawSignatures :
            (submission_with_signature_result(
                 Signed(a), challenge, location, signature) = "Ok")
            <=> /\ <<challenge, a>> \notin Submissions
                /\ IsPrefix(challenge, location)
                /\ OracleSigned(signature, location)

\* C3 witness: a submission was just accepted under a registered key and its
\* record exists.
C3_Witness ==
    /\ last = [op |-> "submission_with_signature", result |-> "Ok"]
    /\ Oracle # {}
    /\ Submissions # {}

\* The two parts of C4: the success condition, in every state, and the
\* effect of a successful call, on every step.
C4_CreateIff ==
    \A a \in Accounts, challenge \in Geohashes :
        (create_challenge_result(Signed(a), challenge) = "Ok")
        <=> /\ BytesOf(challenge) \subseteq GeohashAlphabet
            /\ challenge \notin Challenges
C4_CreateEffect ==
    (last'.op = "create_challenge" /\ last'.result = "Ok") =>
        \E a \in Accounts, challenge \in Geohashes :
            /\ challenge \notin Challenges
            /\ Challenges' = Challenges \cup {challenge}
            /\ events' = events (+) SetToBag({ChallengeCreated(a, challenge)})

\* C4: create_challenge by a signed caller succeeds exactly when every byte
\* of the challenge is in the geohash alphabet and the challenge is not yet
\* a key of Challenges; a successful call adds the challenge to Challenges
\* and deposits one ChallengeCreated event for it.
C4_CreateChallenge == [](C4_CreateIff) /\ [][C4_CreateEffect]_vars

\* C4 witness: a challenge was created and its event is in the log.
C4_Witness ==
    /\ last = [op |-> "create_challenge", result |-> "Ok"]
    /\ \E e \in EventsOfType("ChallengeCreated") : e.challenge \in Challenges

\* The three parts of C5: the error returned, one entry and one event per
\* created challenge, and the failing call's frame.
C5_FailureResult ==
    \A a \in Accounts, challenge \in Geohashes :
        (~(BytesOf(challenge) \subseteq GeohashAlphabet)
            \/ challenge \in Challenges) =>
            create_challenge_result(Signed(a), challenge) = "InvalidGeohash"
C5_OneEntry ==
    /\ \A e \in EventsOfType("ChallengeCreated") : CopiesIn(e, events) = 1
    /\ Challenges = {e.challenge : e \in EventsOfType("ChallengeCreated")}
    /\ Cardinality(EventsOfType("ChallengeCreated")) = Cardinality(Challenges)
C5_FailureFrame ==
    (last'.op = "create_challenge" /\ last'.result # "Ok") =>
        UNCHANGED <<storage, events, mintCalls>>

\* C5: a create_challenge call that fails on the alphabet or on a duplicate
\* returns InvalidGeohash and changes neither storage, the mint record nor
\* the event log; Challenges keeps one entry, and the log one
\* ChallengeCreated event, per created challenge.
C5_CreateFailure ==
    [](C5_FailureResult /\ C5_OneEntry) /\ [][C5_FailureFrame]_vars

\* C5 witness: a challenge exists and a create_challenge call just failed
\* with InvalidGeohash.
C5_Witness ==
    /\ last = [op |-> "create_challenge", result |-> "InvalidGeohash"]
    /\ Challenges # {}

C7_ErrorFrame ==
    (last'.op = "submission_with_signature"
        /\ last'.result \in SignatureErrors) =>
        UNCHANGED <<storage, mintCalls, events>>

\* C7: a submission_with_signature call that returns an error changes
\* neither Submissions, Challenges, Oracle, the verifying key, the mint
\* record nor the event log.
C7_SignatureErrorChangesNothing == [][C7_ErrorFrame]_vars

\* C7 witness: a submission was just rejected for its signature, after the
\* record and prefix checks passed.
C7_Witness ==
    last = [op |-> "submission_with_signature", result |-> "InvalidSignature"]

\* A step of a successful submission_with_proof call.
C8_ProofSuccessEffect ==
    (last'.op = "submission_with_proof" /\ last'.result = "Ok") =>
        \E pair \in Pairs :
            /\ mintCalls' = mintCalls (+) SetToBag({pair})
            /\ Submissions' = Submissions \cup {pair}
            /\ \E e \in BagToSet(events') :
                   /\ e.type = "SubmissionAccepted"
                   /\ <<e.challenge, e.who>> = pair
                   /\ CopiesIn(e, events') = CopiesIn(e, events) + 1

C9_ProofFailure ==
    (last'.op = "submission_with_proof"
        /\ last'.result \notin {"Ok", "BadOrigin"}) =>
        /\ last'.result = "InvalidProof"
        /\ UNCHANGED <<storage, mintCalls, events>>

\* C9: submission_with_proof by a signed caller, with proof bytes that do
\* not verify (bytes that are no well-formed proof included), returns
\* InvalidProof and changes no state.
C9_BadProofIsInvalidProof == [][C9_ProofFailure]_vars

\* C10: no call aborts: every call returns Ok or an error value.
C10_NoPanic == last.result # "Panic"


\* C11: in every state a (challenge, participant) pair has a Submissions
\* record exactly when Mint::mint was invoked by an accepted submission for
\* the pair: no reward without a record and no record without a reward.
C11_RecordIffMint ==
    \A pair \in Pairs : (pair \in Submissions) <=> (MintsFor(pair) >= 1)

\* C11 witness: a submission was accepted; one pair has both a record and a
\* reward while another pair has neither.
C11_Witness ==
    /\ last = [op |-> "submission_with_signature", result |-> "Ok"]
    /\ \E pair \in Pairs : pair \in Submissions /\ MintsFor(pair) >= 1
    /\ \E pair \in Pairs : pair \notin Submissions /\ MintsFor(pair) = 0

C13_SetOracleStep ==
    \A origin \in Origins, public_key \in RawPublicKeys :
        set_oracle_public_key(origin, public_key) =>
            IF origin = Root
            THEN last'.result = "Ok" /\ Oracle' = {public_key}
            ELSE last'.result = "BadOrigin" /\ Oracle' = Oracle

\* C13: set_oracle_public_key succeeds only for the root origin and then
\* replaces the single stored Oracle value with the given key; a call from
\* any other origin fails and leaves Oracle unchanged.
C13_OnlyRootSetsOracle ==
    /\ [](\A origin \in Origins :
              (set_oracle_public_key_result(origin) = "Ok") <=> origin = Root)
    /\ [][C13_SetOracleStep]_vars

\* C13 witness: root replaced a key under which a submission had been
\* accepted by a key of another length.
C13_Witness ==
    /\ last = [op |-> "set_oracle_public_key", result |-> "Ok"]
    /\ Oracle = {[len |-> PublicKeyLen - 1, key |-> 0]}
    /\ Submissions # {}

\* C14: a privileged call sets the registered verifying key, whatever its
\* present value: in every state, for every verifying key, a call that
\* leaves ProofVerifyingKey holding that key can be made.
C14_VerifyingKeyCanBeSet ==
    \A verifying_key \in RawVerifyingKeys :
        ENABLED (Next /\ ProofVerifyingKey' = {verifying_key})

\* C15: a Submissions record, once set, is there in every later state,
\* whatever call is made, and Submissions holds one record at most for a
\* (challenge, participant) pair: it is a set of such pairs.
C15_RecordsMonotone ==
    /\ [](Submissions \subseteq Pairs)
    /\ [][Submissions \subseteq Submissions']_vars

\* C15 witness: records of two pairs are held after a later call of another
\* kind.
C15_Witness ==
    /\ Cardinality(Submissions) = 2
    /\ last.op \in {"create_challenge", "set_oracle_public_key"}


\* The circuit's two sequences, where both are given.
ShorterOf(circuit) == CHOOSE v \in circuit.shorter : TRUE
LargerOf(circuit) == CHOOSE v \in circuit.larger : TRUE
Given(circuit) == circuit.shorter # {} /\ circuit.larger # {}
InvalidInstance(circuit) ==
    /\ Given(circuit)
    /\ \/ ShorterOf(circuit) = <<>>
       \/ LargerOf(circuit) = <<>>
       \/ Len(ShorterOf(circuit)) > Len(LargerOf(circuit))

\* C16: for a circuit with empty shorter, empty larger, or shorter longer
\* than larger, generate_constraints, setup_groth16 and create_proof each
\* return the error Unsatisfiable, with no variable and no constraint
\* allocated and no keys or proof made; none accepts it and none aborts.
C16_InvalidInstanceRejected ==
    (InvalidInstance(prover.circuit) /\ prover.op # "none") =>
        /\ prover.result = "Unsatisfiable"
        /\ prover.cs = ConstraintSystem_new
        /\ prover.output = NoOutput

\* C16 witness: create_proof returned Unsatisfiable for a non-empty shorter
\* longer than a non-empty larger.
C16_Witness ==
    /\ prover.op = "create_proof"
    /\ prover.result = "Unsatisfiable"
    /\ Given(prover.circuit)
    /\ Len(ShorterOf(prover.circuit)) > Len(LargerOf(prover.circuit))
    /\ LargerOf(prover.circuit) # <<>>

\* C17: for non-empty shorter and larger with shorter no longer than larger,
\* generate_constraints succeeds and leaves a constraint system that is
\* satisfied exactly when shorter is a prefix of larger, with Len(shorter)
\* public inputs and Len(shorter) witnesses; a larger that differs only at
\* positions past Len(shorter) gives the same satisfiability.
C17_SatisfiedIffPrefix ==
    (/\ prover.op = "generate_constraints"
     /\ Given(prover.circuit)
     /\ ~InvalidInstance(prover.circuit)) =>
        LET shorter == ShorterOf(prover.circuit)
            larger == LargerOf(prover.circuit)
        IN  /\ prover.result = "Ok"
            /\ is_satisfied(prover.cs)
                   <=> \A i \in 1..Len(shorter) : larger[i] = shorter[i]
            /\ is_satisfied(prover.cs) <=> IsPrefix(shorter, larger)
            /\ Len(prover.cs.instance) = Len(shorter)
            /\ Len(prover.cs.witness) = Len(shorter)
            /\ \A other \in FrSeqs :
                   (/\ Len(other) >= Len(shorter)
                    /\ SubSeq(other, 1, Len(shorter))
                           = SubSeq(larger, 1, Len(shorter))) =>
                       is_satisfied(generate_constraints(
                           CompareCircuit_new(shorter, other),
                           ConstraintSystem_new).cs)
                       = is_satisfied(prover.cs)

\* C17 witness: the system of a two-element shorter and a longer larger
\* that starts with it was synthesized and is satisfied.
C17_Witness ==
    /\ prover.op = "generate_constraints"
    /\ prover.result = "Ok"
    /\ Given(prover.circuit)
    /\ Len(ShorterOf(prover.circuit)) = 2
    /\ Len(LargerOf(prover.circuit)) > 2
    /\ is_satisfied(prover.cs)


\* C18: the signature that sign makes for private key x, nonce k and message
\* m is (R, z) with R = G*k and z = k + c*x, where c = H(P, m, R) and
\* P = G*x; verify(P, signature, m) accepts it.
C18_SignThenVerify ==
    /\ \A signature \in schnorr.signature :
           LET x == schnorr.keypair.private_key
               P == schnorr.keypair.public_key
               c == from_be_bytes_mod_order(
                        hash(schnorr.message, P, signature.R))
           IN  /\ P = (generator * x) % GroupOrder
               /\ \E k \in Scalars :
                      /\ signature.R = (generator * k) % GroupOrder
                      /\ signature.z = (k + c * x) % GroupOrder
    /\ (/\ schnorr.verified # NotVerified
        /\ schnorr.verified.public_key = schnorr.keypair.public_key
        /\ schnorr.verified.message = schnorr.message) =>
           schnorr.verified.ok

\* C18 witness: a signature with z other than the nonce's own image, over a
\* non-empty message, was verified against the signer's key and accepted.
C18_Witness ==
    /\ schnorr.verified # NotVerified
    /\ schnorr.verified.public_key = schnorr.keypair.public_key
    /\ schnorr.verified.message = schnorr.message
    /\ schnorr.verified.ok
    /\ schnorr.message # <<>>
    /\ schnorr.keypair.private_key # 0
    /\ \E signature \in schnorr.signature :
           (generator * signature.z) % GroupOrder # signature.R


\* The string left when one leading "0x" is taken off, and the hexadecimal
\* digits.
WithoutOne0x(str) ==
    IF Len(str) >= 2 /\ SubSeq(str, 1, 2) = <<48, 120>>
    THEN [i \in 1..(Len(str) - 2) |-> str[i + 2]]
    ELSE str
IsHexDigit(c) == c \in (48..57) \cup (97..102) \cup (65..70)

\* C19: decoding, with N the array's length, the encoding of an array gives
\* back Ok(array), with and without "0x" put before it.  A string whose
\* length without one leading "0x" is not 2*N is rejected with
\* InvalidHexLength, whatever its characters; a string of that length with
\* a character that is no hexadecimal digit, with HexParseError.
C19_HexRoundTrip ==
    hex.result # NotDecoded =>
        LET str == CHOOSE str \in hex.string : TRUE
            rest == WithoutOne0x(str)
        IN  /\ \A array \in hex.array :
                   hex.N = Len(array) =>
                       hex.result = [tag |-> "Ok", out |-> array]
            /\ Len(rest) # 2 * hex.N =>
                   hex.result = [tag |-> "InvalidHexLength"]
            /\ (/\ Len(rest) = 2 * hex.N
                /\ \E i \in 1..Len(rest) : ~IsHexDigit(rest[i])) =>
                   hex.result.tag = "HexParseError"

\* C19 witness: a two-byte array with letter digits was encoded, prefixed
\* with "0x" and decoded back.
C19_Witness ==
    /\ hex.array = {<<171, 10>>}
    /\ hex.prefixed
    /\ hex.N = 2
    /\ hex.result = [tag |-> "Ok", out |-> <<171, 10>>]


\* A value that holds the location together with a signature; a printed
\* JSON line that does.
LocationWithSignature(value, location) ==
    /\ DOMAIN value = {"location", "signature"}
    /\ value.location = location
JsonHoldsLocation(line, location) ==
    /\ line.json = "object"
    /\ \E name \in DOMAIN line.members : line.members[name] = location

\* C20: when a run succeeds, the value sign_location returned, and the JSON
\* line printed, hold the geohash that was signed together with the
\* signature over its hash.
C20_LocationReturnedWithSignature ==
    run.exit_code = {0} =>
        /\ LocationWithSignature(
               run.signed_location.value, run.location.value)
        /\ \E i \in 1..Len(run.stdout) :
               JsonHoldsLocation(run.stdout[i], run.location.value)


\* The stages of a run in their order, and the message of each one's
\* failure.
StageOrder == <<"key", "location", "sign", "serialize">>
FailureOf ==
    <<"get key", "get location", "sign location", "serialize signature">>

\* C21: the stages run so far are an initial part of key, location, sign,
\* serialize.  A run that failed printed one error, that of the last stage
\* it ran, and no JSON line, and exits with 1; a run prints its one JSON
\* line only after all four stages; a stage is run only after the stages
\* before it succeeded, so nothing is signed or printed without a location
\* fetched.
C21_StagesInOrder ==
    run.exit_code # {} =>
        /\ \E n \in 1..4 : run.stages = SubSeq(StageOrder, 1, n)
        /\ run.exit_code = {1} =>
               /\ run.stdout = <<>>
               /\ Len(run.stderr) = 1
               /\ run.stderr[1].failed = FailureOf[Len(run.stages)]
        /\ run.exit_code = {0} =>
               /\ run.stages = StageOrder
               /\ Len(run.stdout) = 1
               /\ run.stderr = <<>>
        /\ key_result(run.env, run.key).tag # "Ok" =>
               /\ run.exit_code = {1}
               /\ run.stages = <<"key">>
               /\ run.location = NotRun
        /\ run.location # NotRun =>
               key_result(run.env, run.key).tag = "Ok"
        /\ (run.location # NotRun /\ run.location.tag # "Ok") =>
               /\ run.exit_code = {1}
               /\ run.stages = <<"key", "location">>
        /\ (run.signed_location # NotRun \/ run.stdout # <<>>) =>
               run.location.tag = "Ok"

\* C21 witness: the key was read, the location lookup failed, and the run
\* ended there with nothing signed and nothing printed.
C21_Witness ==
    /\ run.exit_code = {1}
    /\ run.stages = <<"key", "location">>
    /\ run.location = [tag |-> "Location"]
    /\ run.signed_location = NotRun
    /\ run.stdout = <<>>


\* The encodings of the string made so far, at any of the three places.
EncodingsMade ==
    prover.for_circuit \cup prover.for_verify_proof
        \cup prover.for_verify_zkp

\* C22: the prover's encoding of a string, for the circuit and for
\* verify_proof, and the pallet's encoding of it as a challenge are the one
\* sequence of the string's length whose i-th field element is the numeric
\* value of the string's i-th byte.
C22_SamePublicInputEncoding ==
    /\ \A encoding \in EncodingsMade :
           /\ Len(encoding) = Len(prover.string)
           /\ \A i \in 1..Len(prover.string) :
                  encoding[i] = prover.string[i]
    /\ Cardinality(EncodingsMade) <= 1
    /\ prover.string = <<97, 98, 99>> =>
           EncodingsMade \subseteq {<<97, 98, 99>>}

\* C22 witness: "abc" was encoded at the three places, each giving
\* 97, 98, 99.
C22_Witness ==
    /\ prover.string = <<97, 98, 99>>
    /\ prover.for_circuit = {<<97, 98, 99>>}
    /\ prover.for_verify_proof = {<<97, 98, 99>>}
    /\ prover.for_verify_zkp = {<<97, 98, 99>>}


\* With key k registered: for a pair without a record and a location that
\* starts with the challenge, the signature of any other key over the
\* location is rejected with InvalidSignature and the signature of k is
\* accepted.
VerifiedAgainst(k) ==
    \A a \in Accounts, challenge \in Geohashes, location \in Geohashes :
        (<<challenge, a>> \notin Submissions
            /\ IsPrefix(challenge, location)) =>
            /\ \A other \in OracleKeys \ {k} :
                   submission_with_signature_result(
                       Signed(a), challenge, location, Sign(other, location))
                       = "InvalidSignature"
            /\ submission_with_signature_result(
                   Signed(a), challenge, location, Sign(k, location)) = "Ok"
\* A step in which root sets a well-formed key: the submissions that follow
\* are verified against it, and the records held stay.
C23_RotationStep ==
    \A k \in OracleKeys :
        set_oracle_public_key(Root, [len |-> PublicKeyLen, key |-> k]) =>
            /\ VerifiedAgainst(k)'
            /\ Submissions' = Submissions

\* C23: submissions are verified against the key registered last: once
\* set_oracle_public_key has replaced key k1 by another key k2, a
\* submission_with_signature with a signature of k1 is rejected with
\* InvalidSignature and one with a signature of k2 is accepted, and the
\* records accepted under k1 stay.
C23_LatestKeyVerifies ==
    /\ [](\A k \in OracleKeys :
              Oracle = {[len |-> PublicKeyLen, key |-> k]} =>
                  VerifiedAgainst(k))
    /\ [][C23_RotationStep]_vars

\* C23 witness: a submission signed by key 2 was accepted while key 2 is
\* registered, and the record of a submission signed by key 1, accepted
\* before the key was replaced, is still held.
C23_Witness ==
    /\ last = [op |-> "submission_with_signature", result |-> "Ok"]
    /\ Oracle = {[len |-> PublicKeyLen, key |-> 2]}
    /\ \E e1, e2 \in EventsOfType("SubmissionAccepted") :
           /\ e1.signature.signer = 1
           /\ e2.signature.signer = 2
           /\ {<<e1.challenge, e1.who>>, <<e2.challenge, e2.who>>}
                  \subseteq Submissions


\* C24: a submission is accepted only for a challenge that was created: in
\* every reachable state the challenge of every (challenge, participant)
\* pair in Submissions is a key of Challenges.
C24_RecordedChallengeCreated ==
    \A pair \in Submissions : pair[1] \in Challenges


\* C25: valid_geohash holds of the empty byte string, so create_challenge
\* accepts the empty challenge while it is not present; every location
\* starts with the empty challenge; and the location is not checked against
\* the geohash alphabet: with a key registered and no record for the pair,
\* a submission for the empty challenge with any location, in the alphabet
\* or not, signed by that key, is accepted.
C25_EmptyChallenge ==
    /\ valid_geohash(<<>>)
    /\ \A a \in Accounts :
           <<>> \notin Challenges =>
               create_challenge_result(Signed(a), <<>>) = "Ok"
    /\ \A location \in Geohashes :
           /\ geohash_in_geohash(location, <<>>)
           /\ \A a \in Accounts, k \in OracleKeys :
                  (Oracle = {[len |-> PublicKeyLen, key |-> k]}
                      /\ <<<<>>, a>> \notin Submissions) =>
                      submission_with_signature_result(
                          Signed(a), <<>>, location, Sign(k, location)) = "Ok"

\* C25 witness: the empty challenge was created, and a submission for it was
\* accepted whose signed location has a byte outside the geohash alphabet.
C25_Witness ==
    /\ <<>> \in Challenges
    /\ \E e \in EventsOfType("ChallengeCreated") : e.challenge = <<>>
    /\ \E e \in EventsOfType("SubmissionAccepted"), location \in Geohashes :
           /\ e.challenge = <<>>
           /\ e.signature.msg = PayloadHasher_hash(location)
           /\ ~valid_geohash(location)
           /\ <<<<>>, e.who>> \in Submissions

====
